---- MODULE Spec2Model ----
(***************************************************************************)
(* Model of src/rss_processor.py: LiteratureProcessor.process_rss_sources  *)
(* and save_rss_data, the fetch-reconcile-persist cycle over a remote      *)
(* table "rss_entries".  The feed server, the LLM provider and the store   *)
(* are the environment: their answers and their failures are chosen        *)
(* nondeterministically.                                                   *)
(***************************************************************************)
EXTENDS Naturals, Sequences, FiniteSets, TLC

\* ------------------------------------------------------------------ bounds
MaxFeedLen == 2     \* longest feed (number of candidate entries) served
MaxRuns == 2        \* runs of process_rss_sources per program instance
MaxFaults == 1      \* failing external calls injected over one behaviour

\* ------------------------------------------------------------ value sets
Null == "null"                       \* Python None / SQL NULL in a text column
NullEmb == <<>>                      \* None in the embedding column
NoText == <<>>                       \* '' default of entry.get('embedding_text', '')
\* entry['guid'].split(':')[-1] if 'guid' in entry else None
Pmids == {"p1", "p2", Null}
Dois == {"dA", "dB"}
DoiVals == Dois \cup {Null}
Procs == {1, 2}

\* entry.title as delivered by the feed (one article, one title)
TitleOf(pmid) == IF pmid = "p1" THEN "t1" ELSE IF pmid = "p2" THEN "t2" ELSE "t0"

\* the entries fetch_rss_basic builds (link, published and full_content are
\* carried beside title, copied verbatim on insert and never written again)
Candidates == {[pmid |-> p, doi |-> d, title |-> TitleOf(p)] : p \in Pmids, d \in DoiVals}

RECURSIVE SeqsUpTo(_, _)
SeqsUpTo(S, n) ==
    IF n = 0 THEN {<<>>}
    ELSE LET shorter == SeqsUpTo(S, n - 1)
         IN shorter \cup {Append(s, x) : s \in {t \in shorter : Len(t) = n - 1}, x \in S}

Feeds == SeqsUpTo(Candidates, MaxFeedLen)

Range(s) == {s[j] : j \in DOMAIN s}

\* ------------------------------------------------------- enrichment calls
\* Outcome of the three chat-completion calls made for one new article.
LLMOutcomes == [tt : BOOLEAN, en : BOOLEAN, zh : BOOLEAN]
NoLLMFailure == [tt |-> TRUE, en |-> TRUE, zh |-> TRUE]
LLMFailures(o) == (IF o.tt THEN 0 ELSE 1) + (IF o.en THEN 0 ELSE 1) + (IF o.zh THEN 0 ELSE 1)

translate_title(text, ok) == IF ok THEN "zhTitle" ELSE text
generate_english_tldr(ok) == IF ok THEN "enTldr" ELSE "Unable to generate English summary."
translate_tldr_to_chinese(ok) == IF ok THEN "zhTldr" ELSE "cannot translate summary"

\* hybrid strategy: the non-empty components, joined
prepare_embedding_text(article) ==
    <<article.title, article.title_translated, article.english_tldr, article.chinese_tldr>>

\* the vector the embedding model returns for one text
EmbeddingOf(text) == <<"vec">> \o text

generate_embeddings_partial(text_list) ==
    [j \in DOMAIN text_list |-> IF j = 1 THEN EmbeddingOf(text_list[j]) ELSE NullEmb]

\* "except Exception as e: ... return [None] * len(text_list)"
generate_embeddings_failed(text_list) == [j \in DOMAIN text_list |-> NullEmb]

generate_embeddings(text_list, ok) ==
    IF ok THEN [j \in DOMAIN text_list |-> EmbeddingOf(text_list[j])]
    ELSE generate_embeddings_failed(text_list)

\* lines 328-337: a new article after translation and two-step summary
Enrich(entry, o) ==
    [pmid |-> entry.pmid, doi |-> entry.doi, title |-> entry.title,
     title_translated |-> translate_title(entry.title, o.tt),
     english_tldr |-> generate_english_tldr(o.en),
     chinese_tldr |-> translate_tldr_to_chinese(o.zh),
     embedding_text |-> NoText, embedding |-> NullEmb]

\* ------------------------------------------------------------------ store
\* insert_data of save_rss_data (likes_count, link, published left out)
InsertData(source, entry) ==
    [source |-> source, pmid |-> entry.pmid, doi |-> entry.doi,
     title |-> entry.title, title_translated |-> entry.title_translated,
     tldr |-> entry.chinese_tldr, english_tldr |-> entry.english_tldr,
     embedding |-> entry.embedding, embedding_text |-> entry.embedding_text,
     embedding_strategy |-> IF entry.embedding # NullEmb THEN "hybrid" ELSE Null]

\* update_data of save_rss_data
UpdateData(entry) ==
    IF entry.embedding # NullEmb
    THEN [doi |-> entry.doi, english_tldr |-> entry.english_tldr,
          embedding |-> entry.embedding, embedding_text |-> entry.embedding_text,
          embedding_strategy |-> "hybrid"]
    ELSE [doi |-> entry.doi]

ApplyUpdate(row, data) ==
    [f \in DOMAIN row |-> IF f \in DOMAIN data THEN data[f] ELSE row[f]]

\* the filter .eq("pmid", value) of the store: a comparison with NULL matches
\* no row, so a filter on pmid None finds nothing
PmidEq(rowPmid, value) == value # Null /\ rowPmid = value

\* table.update(update_data).eq("source", source).eq("pmid", pmid)
UpdateRows(st, source, pmid, data) ==
    [j \in DOMAIN st |->
        IF st[j].source = source /\ PmidEq(st[j].pmid, pmid)
        THEN ApplyUpdate(st[j], data) ELSE st[j]]

\* table.select("*").eq("source", source).eq("pmid", entry['pmid'])
LookupRows(st, source, entry) ==
    {j \in DOMAIN st : st[j].source = source /\ PmidEq(st[j].pmid, entry.pmid)}

AlwaysAbsent(data) == FALSE

\* "if existing.data:"
IsExisting(data) == data # {}

\* a stored row as the dict the reconciler holds (a key the row lacks reads as
\* the .get default)
RowAsEntry(row) ==
    [pmid |-> row.pmid, doi |-> row.doi, title |-> row.title,
     title_translated |-> row.title_translated, english_tldr |-> row.english_tldr,
     chinese_tldr |-> "", embedding_text |-> row.embedding_text,
     embedding |-> row.embedding]

\* load_existing_data_for_source, then the dict comprehension of line 317:
\* of several rows with one pmid the last one wins
ExistingPmids(st, source) ==
    LET keys == {st[j].pmid : j \in {x \in DOMAIN st : st[x].source = source}}
        last(p) == CHOOSE j \in DOMAIN st :
                      /\ st[j].source = source /\ st[j].pmid = p
                      /\ \A x \in DOMAIN st :
                            (st[x].source = source /\ st[x].pmid = p) => x <= j
    IN [p \in keys |-> RowAsEntry(st[last(p)])]

\* --------------------------------------------------------- reconciliation
\* "if entry['pmid'] not in existing_pmids"
IsNew(ex, entry) == entry.pmid \notin DOMAIN ex

\* "if existing_entry.get('doi') != entry['doi']"
DoiDiffers(existing_entry, entry) == existing_entry.doi # entry.doi

QueueUpdatePop(ex, upd, entry) ==
    [ex |-> [p \in DOMAIN ex \ {entry.pmid} |-> ex[p]],
     upd |-> Append(upd, [ex[entry.pmid] EXCEPT !.doi = entry.doi])]

\* "existing_entry['doi'] = entry['doi']; updated_entries.append(existing_entry)":
\* the dict of existing_pmids is changed in place and the list holds that same
\* dict, so every element queued earlier for this pmid shows the new doi too
QueueUpdate(ex, upd, entry) ==
    LET changed == [ex[entry.pmid] EXCEPT !.doi = entry.doi]
    IN [ex |-> [ex EXCEPT ![entry.pmid] = changed],
        upd |-> Append([j \in DOMAIN upd |->
                           IF upd[j].pmid = entry.pmid THEN changed ELSE upd[j]],
                       changed)]

\* the loop over new_feed_data['entries']; llm[k] is the outcome of the LLM
\* calls made for the k-th candidate when it is new
RECURSIVE Classify(_, _, _, _, _, _)
Classify(feed, k, llm, ex, new, upd) ==
    IF k > Len(feed) THEN [new_entries |-> new, updated_entries |-> upd]
    ELSE IF IsNew(ex, feed[k])
         THEN Classify(feed, k + 1, llm, ex, Append(new, Enrich(feed[k], llm[k])), upd)
         ELSE IF DoiDiffers(ex[feed[k].pmid], feed[k])
              THEN LET q == QueueUpdate(ex, upd, feed[k])
                   IN Classify(feed, k + 1, llm, q.ex, new, q.upd)
              ELSE Classify(feed, k + 1, llm, ex, new, upd)

NewIdx(feed, ex) == {k \in DOMAIN feed : IsNew(ex, feed[k])}

RECURSIVE SumOver(_, _)
SumOver(f, S) ==
    IF S = {} THEN 0 ELSE LET x == CHOOSE y \in S : TRUE IN f[x] + SumOver(f, S \ {x})

\* lines 350-359: embedding_text and embedding of every new entry
WithEmbeddings(new, ok) ==
    LET texts == [j \in DOMAIN new |-> prepare_embedding_text(new[j])]
        embeddings == generate_embeddings(texts, ok)
    IN [j \in DOMAIN new |->
           [new[j] EXCEPT !.embedding_text = texts[j], !.embedding = embeddings[j]]]

AbortOnError(idx, n) == n + 1

\* "except Exception as e: ... continue" of process_rss_sources: the index of
\* the source handled next (n sources in all)
AfterSourceError(idx, n) == idx + 1

\* "except Exception as e: print ..." inside the loop of save_rss_data: the
\* index of the entry handled next (n entries in all)
AfterEntryError(k, n) == k + 1

\* ------------------------------------------------------------------ state
VARIABLES
    store,      \* table rss_entries: the rows, in insertion order
    sources,    \* rss_sources.json: the configured source names, in order
    feedOf,     \* what each source's feed serves
    ps,         \* per program instance: position and locals of process_rss_sources
    hs,         \* per program instance: what the current run has done so far
    faultsLeft  \* failing external calls the environment may still inject

vars == <<store, sources, feedOf, ps, hs, faultsLeft>>

NoRun == [valid |-> FALSE, store |-> <<>>, storeOK |-> TRUE, llmOK |-> TRUE, fetchOK |-> TRUE,
          writes |-> 0]

InitProc(on, runs) ==
    [pc |-> IF on THEN "idle" ELSE "off", runsLeft |-> runs, srcIdx |-> 0,
     feed |-> <<>>, existing |-> <<>>, new_entries |-> <<>>, updated_entries |-> <<>>,
     entries_to_save |-> <<>>, k |-> 0, found |-> FALSE]

InitHist ==
    [runs |-> 0, visited |-> {}, srcFailed |-> {}, reconciled |-> {},
     attempted |-> {}, okIdx |-> {}, failedIdx |-> {}, embFailed |-> FALSE,
     nInserts |-> 0, nUpdates |-> 0, inserted |-> {},
     storeOK |-> TRUE, llmOK |-> TRUE, fetchOK |-> TRUE, prev |-> NoRun]

\* a row this program wrote earlier for (source, pmid): enrichment succeeded,
\* the embedding call succeeded or failed
StoredRow(source, pmid, doi, embOk) ==
    LET e == Enrich([pmid |-> pmid, doi |-> doi, title |-> TitleOf(pmid)],
                    NoLLMFailure)
    IN InsertData(source, WithEmbeddings(<<e>>, embOk)[1])

InitRowKinds == {<<"absent", TRUE>>, <<Null, TRUE>>, <<"dA", TRUE>>}

RowsFor(source, pmid, kind) ==
    IF kind[1] = "absent" THEN <<>> ELSE <<StoredRow(source, pmid, kind[1], kind[2])>>

\* the table before the first run: empty, or the row of one article saved by
\* an earlier run (further rows come with the runs)
InitStores(source) == {RowsFor(source, "p1", k1) : k1 \in InitRowKinds}

Src(i) == sources[ps[i].srcIdx]

\* the for loop of process_rss_sources moves to source idx, or the run is over
Advance(i, idx, P, H) ==
    /\ ps' = [ps EXCEPT ![i] = [P EXCEPT !.srcIdx = idx,
                                         !.pc = IF idx > Len(sources) THEN "idle" ELSE "fetch"]]
    /\ hs' = [hs EXCEPT ![i] = H]

\* main(): one run of process_rss_sources begins
StartRun(i) ==
    /\ ps[i].pc = "idle"
    /\ ps[i].runsLeft > 0
    /\ Advance(i, 1, [ps[i] EXCEPT !.runsLeft = @ - 1],
               [hs[i] EXCEPT !.runs = @ + 1, !.visited = {}, !.srcFailed = {}, !.reconciled = {},
                             !.attempted = {}, !.okIdx = {}, !.failedIdx = {}, !.embFailed = FALSE,
                             !.nInserts = 0, !.nUpdates = 0,
                             !.storeOK = TRUE, !.llmOK = TRUE, !.fetchOK = TRUE,
                             !.prev = IF hs[i].runs = 0 THEN NoRun
                                      ELSE [valid |-> TRUE, store |-> store,
                                            storeOK |-> hs[i].storeOK, llmOK |-> hs[i].llmOK,
                                            fetchOK |-> hs[i].fetchOK,
                                            writes |-> hs[i].nInserts + hs[i].nUpdates]])
    /\ UNCHANGED <<store, sources, feedOf, faultsLeft>>

\* new_feed_data = self.fetch_rss_basic(url)
Fetch(i) ==
    /\ ps[i].pc = "fetch"
    /\ \/ /\ ps' = [ps EXCEPT ![i] = [@ EXCEPT !.pc = "load", !.feed = feedOf[Src(i)]]]
          /\ hs' = [hs EXCEPT ![i] = [@ EXCEPT !.visited = @ \cup {ps[i].srcIdx}]]
          /\ UNCHANGED faultsLeft
       \/ /\ faultsLeft > 0
          /\ faultsLeft' = faultsLeft - 1
          /\ Advance(i, AfterSourceError(ps[i].srcIdx, Len(sources)), ps[i],
                     [hs[i] EXCEPT !.visited = @ \cup {ps[i].srcIdx},
                                   !.srcFailed = @ \cup {ps[i].srcIdx},
                                   !.fetchOK = FALSE])
    /\ UNCHANGED <<store, sources, feedOf>>

\* existing_entries = self.load_existing_data_for_source(name); existing_pmids
Load(i) ==
    /\ ps[i].pc = "load"
    /\ \/ /\ ps' = [ps EXCEPT ![i] = [@ EXCEPT !.pc = "reconcile",
                                               !.existing = ExistingPmids(store, Src(i))]]
          /\ UNCHANGED <<hs, faultsLeft>>
       \/ /\ faultsLeft > 0
          /\ faultsLeft' = faultsLeft - 1
          /\ Advance(i, AfterSourceError(ps[i].srcIdx, Len(sources)), ps[i],
                     [hs[i] EXCEPT !.srcFailed = @ \cup {ps[i].srcIdx}, !.storeOK = FALSE])
    /\ UNCHANGED <<store, sources, feedOf>>

\* lines 319-343: every candidate is classified, the new ones are enriched
Reconcile(i) ==
    /\ ps[i].pc = "reconcile"
    /\ \E llm \in [NewIdx(ps[i].feed, ps[i].existing) -> LLMOutcomes] :
         LET failed == SumOver([k \in DOMAIN llm |-> LLMFailures(llm[k])], DOMAIN llm)
             calls == [k \in DOMAIN ps[i].feed |->
                          IF k \in DOMAIN llm THEN llm[k] ELSE NoLLMFailure]
             r == Classify(ps[i].feed, 1, calls, ps[i].existing, <<>>, <<>>)
         IN /\ failed <= faultsLeft
            /\ faultsLeft' = faultsLeft - failed
            /\ ps' = [ps EXCEPT ![i] = [@ EXCEPT !.pc = "embed",
                                                 !.new_entries = r.new_entries,
                                                 !.updated_entries = r.updated_entries,
                                                 !.entries_to_save = <<>>, !.k = 0]]
            /\ hs' = [hs EXCEPT ![i] = [@ EXCEPT !.reconciled = @ \cup {ps[i].srcIdx},
                                                 !.llmOK = @ /\ failed = 0,
                                                 !.attempted = {}, !.okIdx = {},
                                                 !.failedIdx = {}, !.embFailed = FALSE]]
    /\ UNCHANGED <<store, sources, feedOf>>

\* lines 345-368: the batched embedding call, then entries_to_save
Embed(i) ==
    /\ ps[i].pc = "embed"
    /\ \E ok \in BOOLEAN :
         LET called == ps[i].new_entries # <<>>
             new == IF called THEN WithEmbeddings(ps[i].new_entries, ok) ELSE ps[i].new_entries
             all == new \o ps[i].updated_entries
         IN /\ (~called) => ok
            /\ (~ok) => faultsLeft > 0
            /\ faultsLeft' = IF ok THEN faultsLeft ELSE faultsLeft - 1
            /\ ps' = [ps EXCEPT ![i] = [@ EXCEPT !.new_entries = new,
                                                 !.entries_to_save = all, !.k = 1,
                                                 !.pc = IF all # <<>> THEN "lookup" ELSE "saved"]]
            /\ hs' = [hs EXCEPT ![i] = [@ EXCEPT !.embFailed = ~ok, !.llmOK = @ /\ ok]]
    /\ UNCHANGED <<store, sources, feedOf>>

\* the loop of save_rss_data goes on with entry k, or is over
SaveStep(i, k, P, H) ==
    /\ ps' = [ps EXCEPT ![i] = [P EXCEPT !.k = k,
                                         !.pc = IF k > Len(P.entries_to_save) THEN "saved"
                                                ELSE "lookup"]]
    /\ hs' = [hs EXCEPT ![i] = H]

\* existing = table.select("*").eq("source", source).eq("pmid", entry['pmid'])
Lookup(i) ==
    /\ ps[i].pc = "lookup"
    /\ LET entry == ps[i].entries_to_save[ps[i].k]
           H == [hs[i] EXCEPT !.attempted = @ \cup {ps[i].k}]
       IN \/ /\ ps' = [ps EXCEPT ![i] = [@ EXCEPT !.pc = "write",
                                   !.found = IsExisting(LookupRows(store, Src(i), entry))]]
             /\ hs' = [hs EXCEPT ![i] = H]
             /\ UNCHANGED faultsLeft
          \/ /\ faultsLeft > 0
             /\ faultsLeft' = faultsLeft - 1
             /\ SaveStep(i, AfterEntryError(ps[i].k, Len(ps[i].entries_to_save)), ps[i],
                         [H EXCEPT !.storeOK = FALSE, !.failedIdx = @ \cup {ps[i].k}])
    /\ UNCHANGED <<store, sources, feedOf>>

\* lines 269-305: update the stored rows, or insert a new row
Write(i) ==
    /\ ps[i].pc = "write"
    /\ LET entry == ps[i].entries_to_save[ps[i].k]
       IN \/ /\ ps[i].found
             /\ store' = UpdateRows(store, Src(i), entry.pmid, UpdateData(entry))
             /\ SaveStep(i, ps[i].k + 1, ps[i],
                         [hs[i] EXCEPT !.okIdx = @ \cup {ps[i].k}, !.nUpdates = @ + 1])
             /\ UNCHANGED faultsLeft
          \/ /\ ~ps[i].found
             /\ store' = Append(store, InsertData(Src(i), entry))
             /\ SaveStep(i, ps[i].k + 1, ps[i],
                         [hs[i] EXCEPT !.okIdx = @ \cup {ps[i].k}, !.nInserts = @ + 1,
                                       !.inserted = @ \cup {entry.pmid}])
             /\ UNCHANGED faultsLeft
          \/ /\ faultsLeft > 0
             /\ faultsLeft' = faultsLeft - 1
             /\ SaveStep(i, AfterEntryError(ps[i].k, Len(ps[i].entries_to_save)), ps[i],
                         [hs[i] EXCEPT !.storeOK = FALSE, !.failedIdx = @ \cup {ps[i].k}])
             /\ UNCHANGED store
    /\ UNCHANGED <<sources, feedOf>>

\* line 366/368: the try body of one source is over, on to the next source
FinishSource(i) ==
    /\ ps[i].pc = "saved"
    /\ Advance(i, ps[i].srcIdx + 1, ps[i], hs[i])
    /\ UNCHANGED <<store, sources, feedOf, faultsLeft>>

Next ==
    \E i \in Procs :
        \/ StartRun(i)
        \/ Fetch(i)
        \/ Load(i)
        \/ Reconcile(i)
        \/ Embed(i)
        \/ Lookup(i)
        \/ Write(i)
        \/ FinishSource(i)

\* one instance, one source, any feed, any store this program left behind
Init ==
    /\ sources = <<"s1">>
    /\ feedOf \in [{"s1"} -> Feeds]
    /\ store \in InitStores("s1")
    /\ ps = [i \in Procs |-> InitProc(i = 1, MaxRuns)]
    /\ hs = [i \in Procs |-> InitHist]
    /\ faultsLeft = MaxFaults

Spec == Init /\ [][Next]_vars

\* three sources with short feeds over an empty table; each source may fail
SourceFeeds == {f \in Feeds : Len(f) <= 1 /\ \A j \in DOMAIN f : f[j].doi = "dA"}

InitSources ==
    /\ sources = <<"s1", "s2", "s3">>
    /\ feedOf \in [{"s1", "s2", "s3"} -> SourceFeeds]
    /\ store = <<>>
    /\ ps = [i \in Procs |-> InitProc(i = 1, 1)]
    /\ hs = [i \in Procs |-> InitHist]
    /\ faultsLeft = Len(sources)

SpecSources == InitSources /\ [][Next]_vars

\* two instances of the program started on the same source and feed, of one
\* article with pmid and of entries without (the doi plays no part in the
\* lookup-then-insert race)
ConcFeeds == {f \in Feeds : \A j \in DOMAIN f : f[j].doi = "dA" /\ f[j].pmid \in {"p1", Null}}

InitConc ==
    /\ sources = <<"s1">>
    /\ feedOf \in [{"s1"} -> ConcFeeds]
    /\ store \in {<<>>, <<StoredRow("s1", "p1", Null, TRUE)>>}
    /\ ps = [i \in Procs |-> InitProc(TRUE, 1)]
    /\ hs = [i \in Procs |-> InitHist]
    /\ faultsLeft = MaxFaults

SpecConc == InitConc /\ [][Next]_vars

\* ------------------------------------------------------------- properties
KeyRows(st, source, pmid) == {j \in DOMAIN st : st[j].source = source /\ st[j].pmid = pmid}

PrevRunClean(i) ==
    /\ hs[i].prev.valid
    /\ hs[i].prev.storeOK /\ hs[i].prev.fetchOK
    /\ hs[i].storeOK /\ hs[i].fetchOK

AfterReconcile(i) == ps[i].pc \in {"embed", "lookup", "write", "saved"}

\* C1: when process_rss_sources has run over a feed with no failing call and
\* runs again over the same feed, again with no failing call, the second run
\* finds no new entry, queues no update and writes nothing.
C1_SecondRunWritesNothing ==
    \A i \in Procs :
        (PrevRunClean(i) /\ hs[i].prev.llmOK /\ hs[i].llmOK) =>
            /\ hs[i].nInserts = 0
            /\ hs[i].nUpdates = 0
            /\ AfterReconcile(i) =>
                   (ps[i].new_entries = <<>> /\ ps[i].updated_entries = <<>>)

\* C2: with this program as the only writer the table never holds two rows
\* with the same (source, pmid), a missing pmid included.
C2_UniqueKey ==
    \A a, b \in DOMAIN store :
        (store[a].source = store[b].source /\ store[a].pmid = store[b].pmid) => a = b

\* C3: a candidate whose pmid is stored is queued for update exactly when its
\* doi is not null and differs from the stored doi, and an update never puts a
\* null doi over a stored one.
C3_DoiUpdateRule ==
    \A i \in Procs :
        ps[i].pc = "embed" =>
            /\ \A p \in DOMAIN ps[i].existing :
                  (\E j \in DOMAIN ps[i].updated_entries : ps[i].updated_entries[j].pmid = p)
                  <=> (\E k \in DOMAIN ps[i].feed :
                          /\ ps[i].feed[k].pmid = p
                          /\ ps[i].feed[k].doi # Null
                          /\ ps[i].feed[k].doi # ps[i].existing[p].doi)
            /\ \A j \in DOMAIN ps[i].updated_entries :
                  ps[i].updated_entries[j].doi = Null
                      => ps[i].existing[ps[i].updated_entries[j].pmid].doi = Null

\* C4: when a run whose fetch and store calls all succeeded is followed by a
\* second such run over the same feed, the table after the second run equals
\* the table after the first.
C4_SecondRunSameStore ==
    \A i \in Procs :
        (ps[i].pc = "idle" /\ PrevRunClean(i)) => store = hs[i].prev.store

SameButDoi(r1, r2) == [r1 EXCEPT !.doi = Null] = [r2 EXCEPT !.doi = Null]

\* C5: no step changes a field other than doi of a row that is in the table.
C5_OnlyDoiChanges ==
    [][\A j \in DOMAIN store : SameButDoi(store[j], store'[j])]_vars

\* C6: no pmid is both among the new entries and among the entries queued for
\* update of one pass over a source.
C6_DisjointBatches ==
    \A i \in Procs :
        \A a \in DOMAIN ps[i].new_entries, b \in DOMAIN ps[i].updated_entries :
            ps[i].new_entries[a].pmid # ps[i].updated_entries[b].pmid

\* both batches are non-empty and handed to save_rss_data
C6_Witness ==
    /\ ps[1].pc = "lookup"
    /\ ps[1].new_entries # <<>>
    /\ ps[1].updated_entries # <<>>

\* C7: when a run is over, every configured source was fetched, and every
\* source whose fetch and load succeeded was reconciled, whatever failed for
\* the sources before it.
C7_EverySourceHandled ==
    \A i \in Procs :
        (ps[i].pc = "idle" /\ hs[i].runs >= 1) =>
            /\ hs[i].visited = 1 .. Len(sources)
            /\ hs[i].reconciled = hs[i].visited \ hs[i].srcFailed

\* the first two sources failed and the third was reconciled and saved
C7_Witness ==
    /\ ps[1].pc = "idle" /\ hs[1].runs >= 1
    /\ hs[1].srcFailed = {1, 2}
    /\ 3 \in hs[1].reconciled
    /\ KeyRows(store, "s3", "p1") # {}

\* C8: when save_rss_data is over every entry of the batch was attempted, and
\* every entry whose own store calls succeeded has a row in the table, with
\* its doi unless a later entry of the batch wrote the same pmid.
C8_SiblingsPersist ==
    \A i \in Procs :
        ps[i].pc = "saved" =>
            /\ hs[i].attempted = DOMAIN ps[i].entries_to_save
            /\ hs[i].okIdx \cup hs[i].failedIdx = DOMAIN ps[i].entries_to_save
            /\ \A k \in hs[i].okIdx :
                  LET e == ps[i].entries_to_save[k]
                      later == {m \in hs[i].okIdx :
                                   m > k /\ ps[i].entries_to_save[m].pmid = e.pmid}
                  IN /\ KeyRows(store, Src(i), e.pmid) # {}
                     /\ later = {} =>
                           \E j \in KeyRows(store, Src(i), e.pmid) : store[j].doi = e.doi

\* a store call failed for the first entry and the second entry was saved
C8_Witness ==
    /\ ps[1].pc = "saved"
    /\ 1 \in hs[1].failedIdx
    /\ 2 \in hs[1].okIdx

\* C9: when the batched embedding call failed, every new entry goes to
\* save_rss_data with a null embedding, and once saved every one of them is
\* in the table with a null embedding.
C9_AllNullEmbeddings ==
    \A i \in Procs :
        hs[i].embFailed =>
            /\ \A j \in DOMAIN ps[i].new_entries : ps[i].new_entries[j].embedding = NullEmb
            /\ ps[i].pc = "saved" =>
                  \A j \in DOMAIN ps[i].new_entries :
                      LET rows == KeyRows(store, Src(i), ps[i].new_entries[j].pmid)
                      IN /\ j \in hs[i].okIdx => rows # {}
                         /\ \A r \in rows : store[r].embedding = NullEmb

\* the embedding call failed for a batch of two new articles, both saved
C9_Witness ==
    /\ ps[1].pc = "saved"
    /\ hs[1].embFailed
    /\ Len(ps[1].new_entries) >= 2
    /\ ps[1].new_entries[1].pmid # ps[1].new_entries[2].pmid
    /\ {1, 2} \subseteq hs[1].okIdx

\* C10 as claimed, already for the entries that carry a pmid: two instances
\* running at once never leave two rows with the same (source, pmid).
C10_UniqueUnderConcurrency ==
    \A s \in Range(sources), p \in Pmids \ {Null} :
        Cardinality(KeyRows(store, s, p)) <= 1

\* C10 as amended: two instances running at once leave at most two rows with
\* the same (source, pmid) when the pmid is not null, and a second row only
\* when each of the two instances inserted that pmid; of the entries without
\* pmid each instance inserts at most one row per candidate of the feed.
C10_OneRowPerWriter ==
    \A s \in Range(sources) :
        /\ \A p \in Pmids \ {Null} :
              LET rows == Cardinality(KeyRows(store, s, p))
                  writers == Cardinality({i \in Procs : p \in hs[i].inserted})
              IN rows <= (IF writers > 1 THEN writers ELSE 1)
        /\ Cardinality(KeyRows(store, s, Null))
              <= Cardinality(Procs) * Cardinality({k \in DOMAIN feedOf[s] : feedOf[s][k].pmid = Null})

\* both instances looked a pmid up before either inserted it: two rows
C10_Witness ==
    \E p \in Pmids \ {Null} :
        /\ Cardinality(KeyRows(store, "s1", p)) = 2
        /\ \A i \in Procs : p \in hs[i].inserted
====
